---------------------------- MODULE Spec2Model ----------------------------
(***************************************************************************)
(* Model of the BBVA spreadsheet statement parser                          *)
(* (src/src/ofxstatement_bbva/bbva.py): one BBVAParser instance, built on  *)
(* a loaded worksheet, on which parse() is called one or more times.       *)
(*                                                                         *)
(* Texts are sequences of one-character tokens, so that str.lower(),       *)
(* str.startswith() and the f-string of the memo are computed and not      *)
(* assumed.  The non-ASCII characters of the source are the tokens         *)
(* "o_acute" (U+00F3), "A_tilde" (U+00C3) and "sup3" (U+00B3).             *)
(***************************************************************************)
EXTENDS Integers, Sequences, FiniteSets, TLC

VARIABLES
    locale,             \* self.locale
    ws,                 \* self._ws: the rows of the active worksheet
    pc,                 \* position of the caller / of parse()
    err,                \* which exception ended parse(), "" when none
    calls,              \* parse() calls started on this instance
    start_row,          \* local start_row of parse() (1-based)
    start_column,       \* local start_column of parse() (0-based)
    self_start_row,     \* self._start_row
    self_start_column,  \* self._start_column
    fields_to_row,      \* self._fields_to_row
    statement,          \* self.statement
    balance_reads,      \* history: the cell the balance scan read in each row
    returned            \* history: the transaction ids of each returned Statement

vars == <<locale, ws, pc, err, calls, start_row, start_column, self_start_row,
          self_start_column, fields_to_row, statement, balance_reads, returned>>

\* ------------------------------------------------------------------ bounds
MaxStartCol == 2
MaxTopRows == 1
MaxDataRows == 3
MaxCalls == 2

\* ------------------------------------------------------- literal texts
T_F_Valor == <<"F", ".", "V", "a", "l", "o", "r">>
T_Fecha == <<"F", "e", "c", "h", "a">>
T_Concepto == <<"C", "o", "n", "c", "e", "p", "t", "o">>
T_Movimiento == <<"M", "o", "v", "i", "m", "i", "e", "n", "t", "o">>
T_Importe == <<"I", "m", "p", "o", "r", "t", "e">>
T_Divisa == <<"D", "i", "v", "i", "s", "a">>
T_Disponible == <<"D", "i", "s", "p", "o", "n", "i", "b", "l", "e">>
T_Observaciones == <<"O", "b", "s", "e", "r", "v", "a", "c", "i", "o", "n", "e", "s">>
T_Data_valuta == <<"D", "a", "t", "a", " ", "v", "a", "l", "u", "t", "a">>
T_Data == <<"D", "a", "t", "a">>
T_Concetto == <<"C", "o", "n", "c", "e", "t", "t", "o">>
T_Movimento == <<"M", "o", "v", "i", "m", "e", "n", "t", "o">>
T_Importo == <<"I", "m", "p", "o", "r", "t", "o">>
T_Valuta == <<"V", "a", "l", "u", "t", "a">>
T_Disponibile == <<"D", "i", "s", "p", "o", "n", "i", "b", "i", "l", "e">>
T_Osservazioni == <<"O", "s", "s", "e", "r", "v", "a", "z", "i", "o", "n", "i">>
T_Pago_con_tarjeta == <<"P", "a", "g", "o", " ", "c", "o", "n", " ", "t", "a", "r", "j", "e", "t", "a">>
T_Bizum == <<"B", "i", "z", "u", "m">>
T_Transferencia_realizada == <<"T", "r", "a", "n", "s", "f", "e", "r", "e", "n", "c", "i", "a", " ", "r", "e", "a", "l", "i", "z", "a", "d", "a">>
T_Transferencia_recibida == <<"T", "r", "a", "n", "s", "f", "e", "r", "e", "n", "c", "i", "a", " ", "r", "e", "c", "i", "b", "i", "d", "a">>
T_Bonifico_ricevuto == <<"B", "o", "n", "i", "f", "i", "c", "o", " ", "r", "i", "c", "e", "v", "u", "t", "o">>
T_Bonifico_eseguito == <<"B", "o", "n", "i", "f", "i", "c", "o", " ", "e", "s", "e", "g", "u", "i", "t", "o">>
T_Pagamento_con_carta == <<"P", "a", "g", "a", "m", "e", "n", "t", "o", " ", "c", "o", "n", " ", "c", "a", "r", "t", "a">>
T_Prelievo_bancomat == <<"P", "r", "e", "l", "i", "e", "v", "o", " ", "b", "a", "n", "c", "o", "m", "a", "t">>
T_Addebito_diretto == <<"A", "d", "d", "e", "b", "i", "t", "o", " ", "d", "i", "r", "e", "t", "t", "o">>
T_Accredito_stipendio == <<"A", "c", "c", "r", "e", "d", "i", "t", "o", " ", "s", "t", "i", "p", "e", "n", "d", "i", "o">>
T_Commissioni == <<"C", "o", "m", "m", "i", "s", "s", "i", "o", "n", "i">>
P_Abono_Bonificacion_pack == <<"A", "b", "o", "n", "o", " ", "B", "o", "n", "i", "f", "i", "c", "a", "c", "i", "A_tilde", "sup3", "n", " ", "p", "a", "c", "k">>
P_Abono == <<"A", "b", "o", "n", "o", " ">>
P_Adeudo == <<"A", "d", "e", "u", "d", "o", " ">>
P_Retirada_de_efectivo == <<"R", "e", "t", "i", "r", "a", "d", "a", " ", "d", "e", " ", "e", "f", "e", "c", "t", "i", "v", "o">>
P_Trasferimento == <<"T", "r", "a", "s", "f", "e", "r", "i", "m", "e", "n", "t", "o", " ">>
P_Accredito == <<"A", "c", "c", "r", "e", "d", "i", "t", "o", " ">>
P_Addebito == <<"A", "d", "d", "e", "b", "i", "t", "o", " ">>
P_Prelievo == <<"P", "r", "e", "l", "i", "e", "v", "o", " ">>
P_Commissione == <<"C", "o", "m", "m", "i", "s", "s", "i", "o", "n", "e", " ">>
P_Bonifico == <<"B", "o", "n", "i", "f", "i", "c", "o", " ">>
D_Abono_Bonificacion_pack == <<"A", "b", "o", "n", "o", " ", "B", "o", "n", "i", "f", "i", "c", "a", "c", "i", "o_acute", "n", " ", "p", "a", "c", "k">>
D_Compra == <<"C", "o", "m", "p", "r", "a">>
D_Otros == <<"O", "t", "r", "o", "s">>
D_Supermercado == <<"S", "u", "p", "e", "r", "m", "e", "r", "c", "a", "d", "o">>
D_EUR == <<"E", "U", "R">>
D_USD == <<"U", "S", "D">>
D_Bonifico_estero == <<"B", "o", "n", "i", "f", "i", "c", "o", " ", "e", "s", "t", "e", "r", "o">>
D_Spesa == <<"S", "p", "e", "s", "a">>
D_FECHA == <<"F", "E", "C", "H", "A">>
D_DATA == <<"D", "A", "T", "A">>
D_BBVA == <<"B", "B", "V", "A">>
L_None == <<"N", "o", "n", "e">>
L_Open == <<"[", "(">>
L_Mid == <<")", "-", "(">>
L_Close == <<")", "]", " ">>

\* ------------------------------------------------------------ cell values
\* An openpyxl cell value: None, a str, a number or a datetime.
NoneV == [k |-> "none", s |-> <<>>, n |-> 0]
S(t) == [k |-> "str", s |-> t, n |-> 0]
N(i) == [k |-> "num", s |-> <<>>, n |-> i]
D(d) == [k |-> "date", s |-> <<>>, n |-> d]

\* Python truthiness of a cell value: None, "" and 0 are false.
Truthy(v) ==
    CASE v.k = "none" -> FALSE
      [] v.k = "str" -> v.s # <<>>
      [] v.k = "num" -> v.n # 0
      [] OTHER -> TRUE

UpperToLower ==
    ("A" :> "a") @@ ("B" :> "b") @@ ("C" :> "c") @@ ("D" :> "d") @@ ("E" :> "e") @@
    ("F" :> "f") @@ ("G" :> "g") @@ ("H" :> "h") @@ ("I" :> "i") @@ ("J" :> "j") @@
    ("K" :> "k") @@ ("L" :> "l") @@ ("M" :> "m") @@ ("N" :> "n") @@ ("O" :> "o") @@
    ("P" :> "p") @@ ("Q" :> "q") @@ ("R" :> "r") @@ ("S" :> "s") @@ ("T" :> "t") @@
    ("U" :> "u") @@ ("V" :> "v") @@ ("W" :> "w") @@ ("X" :> "x") @@ ("Y" :> "y") @@
    ("Z" :> "z") @@ ("A_tilde" :> "a_tilde")

\* str.lower()
Lower(t) ==
    [i \in 1..Len(t) |-> IF t[i] \in DOMAIN UpperToLower THEN UpperToLower[t[i]] ELSE t[i]]

\* str.startswith(prefix)
StartsWith(t, prefix) ==
    /\ Len(prefix) <= Len(t)
    /\ SubSeq(t, 1, Len(prefix)) = prefix

\* ------------------------------------------------------------ locale tables
Locales == {"es", "it"}

Fields == {"VALUE_DATE", "DATE", "CONCEPT", "MOVEMENT", "AMOUNT", "CURRENCY",
           "BALANCE", "DESCRIPTION"}

\* TYPE_MAPPING: exact matches, as (key, type) pairs in declared order
TYPE_MAPPING(loc) ==
    IF loc = "es"
    THEN << <<T_Pago_con_tarjeta, "POS">>,
            <<T_Bizum, "PAYMENT">>,
            <<T_Transferencia_realizada, "XFER">>,
            <<T_Transferencia_recibida, "XFER">> >>
    ELSE << <<T_Bonifico_ricevuto, "XFER">>,
            <<T_Bonifico_eseguito, "XFER">>,
            <<T_Pagamento_con_carta, "POS">>,
            <<T_Prelievo_bancomat, "ATM">>,
            <<T_Addebito_diretto, "DIRECTDEBIT">>,
            <<T_Accredito_stipendio, "DIRECTDEP">>,
            <<T_Commissioni, "FEE">> >>

\* TYPE_MAPPING_PREFIXES: prefix matches, in declared (dict insertion) order
TYPE_MAPPING_PREFIXES(loc) ==
    IF loc = "es"
    THEN << <<P_Abono_Bonificacion_pack, "FEE">>,
            <<P_Abono, "DIRECTDEP">>,
            <<P_Adeudo, "DIRECTDEBIT">>,
            <<P_Retirada_de_efectivo, "ATM">> >>
    ELSE << <<P_Trasferimento, "XFER">>,
            <<P_Accredito, "DIRECTDEP">>,
            <<P_Addebito, "DIRECTDEBIT">>,
            <<P_Prelievo, "ATM">>,
            <<P_Commissione, "FEE">>,
            <<P_Bonifico, "XFER">> >>

\* FIELD_MAPPINGS: the header text of each field
FIELD_MAPPINGS(loc) ==
    IF loc = "es"
    THEN [VALUE_DATE |-> T_F_Valor, DATE |-> T_Fecha, CONCEPT |-> T_Concepto,
          MOVEMENT |-> T_Movimiento, AMOUNT |-> T_Importe, CURRENCY |-> T_Divisa,
          BALANCE |-> T_Disponible, DESCRIPTION |-> T_Observaciones]
    ELSE [VALUE_DATE |-> T_Data_valuta, DATE |-> T_Data, CONCEPT |-> T_Concetto,
          MOVEMENT |-> T_Movimento, AMOUNT |-> T_Importo, CURRENCY |-> T_Valuta,
          BALANCE |-> T_Disponibile, DESCRIPTION |-> T_Osservazioni]

\* dict.get(key) on a table of (key, type) pairs: the type, or "" for None.
\* Its keys are all str, so only a str value can be found.
TableGet(table, v) ==
    IF v.k = "str" /\ \E i \in 1..Len(table) : table[i][1] = v.s
    THEN table[CHOOSE i \in 1..Len(table) : table[i][1] = v.s][2]
    ELSE ""

\* ------------------------------------------------------------ classifier
\* The loop over TYPE_MAPPING_PREFIXES[locale].items(), from entry i on.
RECURSIVE PrefixLoop(_, _, _)
PrefixLoop(table, i, t) ==
    IF i > Len(table) THEN ""
    ELSE IF StartsWith(t, table[i][1]) THEN table[i][2]
    ELSE PrefixLoop(table, i + 1, t)

\* get_transaction_type naming the concept as the source of a movement match
SourceAlwaysConcept(loc, concept, movement) ==
    LET byConcept == TableGet(TYPE_MAPPING(loc), concept)
        byMovement == TableGet(TYPE_MAPPING(loc), movement)
    IN  IF byConcept # "" THEN [type |-> byConcept, source |-> concept, raised |-> FALSE]
        ELSE IF byMovement # "" THEN [type |-> byMovement, source |-> concept, raised |-> FALSE]
        ELSE IF concept.k # "str" THEN [type |-> "", source |-> NoneV, raised |-> TRUE]
        ELSE LET byPrefix == PrefixLoop(TYPE_MAPPING_PREFIXES(loc), 1, concept.s)
             IN  IF byPrefix # ""
                 THEN [type |-> byPrefix, source |-> concept, raised |-> FALSE]
                 ELSE [type |-> "OTHER", source |-> NoneV, raised |-> FALSE]

\* get_transaction_type: [type, source, raised]; raised when
\* concept.startswith is reached with a concept that is not a str.
get_transaction_type(loc, concept, movement) ==
    LET byConcept == TableGet(TYPE_MAPPING(loc), concept)
        byMovement == TableGet(TYPE_MAPPING(loc), movement)
    IN  IF byConcept # "" THEN [type |-> byConcept, source |-> concept, raised |-> FALSE]
        ELSE IF byMovement # "" THEN [type |-> byMovement, source |-> movement, raised |-> FALSE]
        ELSE IF concept.k # "str" THEN [type |-> "", source |-> NoneV, raised |-> TRUE]
        ELSE LET byPrefix == PrefixLoop(TYPE_MAPPING_PREFIXES(loc), 1, concept.s)
             IN  IF byPrefix # ""
                 THEN [type |-> byPrefix, source |-> concept, raised |-> FALSE]
                 ELSE [type |-> "OTHER", source |-> NoneV, raised |-> FALSE]

\* ------------------------------------------------------------ worksheet
\* ws.max_column: every row of the sheet has this many cells
max_column(w) == Len(w[1])

BlankRow(w) == [c \in 1..max_column(w) |-> NoneV]

\* ws[row]: the cells of a row; a row below max_row is made of new empty cells
WsRow(w, r) == IF r <= Len(w) THEN w[r] ELSE BlankRow(w)

\* seq[from:] of Python, from 0-based
SliceFrom(seq, from) == SubSeq(seq, from + 1, Len(seq))

\* ------------------------------------------------------------ header location
fields_values(loc) == {Lower(FIELD_MAPPINGS(loc)[f]) : f \in Fields}

\* the header test without lower(): the text as written
CellIsHeaderExactCase(v, loc) ==
    v.k = "str" /\ v.s \in {FIELD_MAPPINGS(loc)[f] : f \in Fields}

\* isinstance(cell.value, str) and cell.value.lower() in fields_values
CellIsHeader(v, loc) ==
    v.k = "str" /\ Lower(v.s) \in fields_values(loc)

\* for cell in row: the 1-based column of the first header cell from c on, or 0
RECURSIVE FindInRow(_, _, _)
FindInRow(row, c, loc) ==
    IF c > Len(row) THEN 0
    ELSE IF CellIsHeader(row[c], loc) THEN c
    ELSE FindInRow(row, c + 1, loc)

\* for row in self._ws: the first row from r on that holds a header cell
RECURSIVE FindHeader(_, _, _)
FindHeader(w, r, loc) ==
    IF r > Len(w) THEN [row |-> 0, col |-> 0]
    ELSE IF FindInRow(w[r], 1, loc) # 0 THEN [row |-> r, col |-> FindInRow(w[r], 1, loc)]
    ELSE FindHeader(w, r + 1, loc)

\* ------------------------------------------------------------ field mapping
\* for cell in self._ws[start_row][start_column:]: col_idx of the first cell
\* whose value == field.value, or 0
RECURSIVE FindText(_, _, _)
FindText(row, c, text) ==
    IF c > Len(row) THEN 0
    ELSE IF row[c] = S(text) THEN c
    ELSE FindText(row, c + 1, text)

\* the offset taken from the first sheet column, not from the start column
ColumnOffsetAbsolute(col_idx, sc) == col_idx - 1

\* cell.col_idx - start_column - 1
ColumnOffset(col_idx, sc) == col_idx - sc - 1

\* self._fields_to_row after the loop over the fields; entries of an earlier
\* call stay
MappedFields(w, sr, sc, loc, old) ==
    LET found == {f \in Fields : FindText(w[sr], sc + 1, FIELD_MAPPINGS(loc)[f]) # 0}
    IN  [f \in (DOMAIN old) \cup found |->
            IF f \in found
            THEN ColumnOffset(FindText(w[sr], sc + 1, FIELD_MAPPINGS(loc)[f]), sc)
            ELSE old[f]]

\* get_field_record: [v, raised]; raised is the IndexError of cells[...]
get_field_record(cells, map, field) ==
    IF field \notin DOMAIN map THEN [v |-> NoneV, raised |-> FALSE]
    ELSE IF map[field] + 1 > Len(cells) THEN [v |-> NoneV, raised |-> TRUE]
    ELSE [v |-> cells[map[field] + 1], raised |-> FALSE]

\* ------------------------------------------------------------ parse_value
\* parse_value(value, "amount"): a number becomes a Decimal, None stays None,
\* anything else goes to parse_decimal, which raises on the texts and dates
\* of this model (none is a decimal literal)
ParseAmount(v) ==
    CASE v.k = "num" -> [v |-> v, raised |-> FALSE]
      [] v.k = "none" -> [v |-> NoneV, raised |-> FALSE]
      [] OTHER -> [v |-> NoneV, raised |-> TRUE]

\* parse_value(value, "date"): a non-str passes through; a str goes to
\* strptime("%d/%m/%Y"), which raises on the texts of this model
ParseDate(v) ==
    IF v.k = "str" THEN [v |-> NoneV, raised |-> TRUE] ELSE [v |-> v, raised |-> FALSE]

\* ------------------------------------------------------------ balance scan
\* min_col of iter_rows: 1-based, and 0 stands for "from the first column"
IterMinCol(sc) == IF sc = 0 THEN 1 ELSE sc

\* lines 176-180 from row r on: every row to max_row is visited; in each the
\* cell handed to get_field_record is row[self._start_column:] of a row that
\* iter_rows already cut at min_col.  bal is start_balance so far, reads the
\* 1-based sheet column read in each row (0: the index is past the row's end).
RECURSIVE ScanRows(_, _, _, _, _, _)
ScanRows(w, r, sc, map, bal, reads) ==
    IF r > Len(w) THEN [bal |-> bal, reads |-> reads, raised |-> FALSE]
    ELSE
      LET row == SubSeq(w[r], IterMinCol(sc), max_column(w))
          cells == SliceFrom(row, sc)
          got == get_field_record(cells, map, "BALANCE")
          col == (IterMinCol(sc) - 1) + sc + map["BALANCE"] + 1
      IN  IF "BALANCE" \notin DOMAIN map
          THEN ScanRows(w, r + 1, sc, map, bal, reads)
          ELSE IF got.raised
          THEN [bal |-> bal, reads |-> Append(reads, [row |-> r, col |-> 0]), raised |-> TRUE]
          ELSE IF Truthy(got.v)
          THEN IF ParseAmount(got.v).raised
               THEN [bal |-> bal, reads |-> Append(reads, [row |-> r, col |-> col]),
                     raised |-> TRUE]
               ELSE ScanRows(w, r + 1, sc, map, ParseAmount(got.v).v,
                             Append(reads, [row |-> r, col |-> col]))
          ELSE ScanRows(w, r + 1, sc, map, bal, Append(reads, [row |-> r, col |-> col]))

\* ------------------------------------------------------------ split_records
\* not any(cell.value for cell in line_contents)
RowIsBlank(cells) == \A c \in 1..Len(cells) : ~Truthy(cells[c])

\* the rows split_records collects, from row r on (as sheet row numbers)
RECURSIVE split_records(_, _, _)
split_records(w, r, sc) ==
    IF RowIsBlank(SliceFrom(WsRow(w, r), sc)) THEN <<>>
    ELSE <<r>> \o split_records(w, r + 1, sc)

\* the sheet after split_records: reading the row that ends the loop creates
\* its cells when it lies below max_row
SheetAfterSplit(w, r, sc) ==
    IF r + Len(split_records(w, r, sc)) > Len(w) THEN Append(w, BlankRow(w)) ELSE w

\* ------------------------------------------------------------ parse_record
DigitChar == <<"0", "1", "2", "3", "4", "5", "6", "7", "8", "9">>

RECURSIVE Digits(_)
Digits(n) == IF n < 10 THEN <<DigitChar[n + 1]>>
             ELSE Digits(n \div 10) \o <<DigitChar[(n % 10) + 1]>>

\* str(value) as the f-string renders it; D(d) is datetime(2024, 1, d)
PyStr(v) ==
    CASE v.k = "none" -> L_None
      [] v.k = "str" -> v.s
      [] v.k = "num" -> IF v.n < 0 THEN <<"-">> \o Digits(0 - v.n) ELSE Digits(v.n)
      [] OTHER -> <<"2", "0", "2", "4", "-", "0", "1", "-">>
                  \o (IF v.n < 10 THEN <<"0">> ELSE <<>>) \o Digits(v.n)
                  \o <<" ", "0", "0", ":", "0", "0", ":", "0", "0">>

\* f"[({type_source})-({movement})] {description}"
Memo(type_source, movement, description) ==
    L_Open \o PyStr(type_source) \o L_Mid \o PyStr(movement) \o L_Close
    \o PyStr(description)

\* generate_transaction_id: a digest of the line's date, memo and amount,
\* kept as the triple it digests
generate_transaction_id(date, memo, amount) == <<date.n, memo, amount.n>>

\* parse_record on the cells of sheet row r: [line, raised], raised being ""
\* or the step that raised.  A line without a datetime date cannot get an id,
\* one without an amount cannot be summed: both end the parse.
parse_record(w, r, sc, map, loc) ==
    LET cells == SliceFrom(WsRow(w, r), sc)
        date == ParseDate(get_field_record(cells, map, "DATE").v)
        amount == ParseAmount(get_field_record(cells, map, "AMOUNT").v)
        concept == get_field_record(cells, map, "CONCEPT").v
        movement == get_field_record(cells, map, "MOVEMENT").v
        description == get_field_record(cells, map, "DESCRIPTION").v
        tt == get_transaction_type(loc, concept, movement)
        memo == Memo(tt.source, movement, description)
        cur == get_field_record(cells, map, "CURRENCY").v
        none == [row |-> r, date |-> NoneV, amount |-> NoneV, trntype |-> "",
                 memo |-> <<>>, currency |-> NoneV, id |-> <<>>]
    IN  IF date.raised \/ amount.raised THEN [line |-> none, raised |-> "record"]
        ELSE IF tt.raised THEN [line |-> none, raised |-> "classify"]
        ELSE IF date.v.k # "date" \/ amount.v.k # "num"
        THEN [line |-> none, raised |-> "record"]
        ELSE [line |-> [row |-> r, date |-> date.v, amount |-> amount.v,
                        trntype |-> tt.type, memo |-> memo,
                        currency |-> IF Truthy(cur) THEN cur ELSE NoneV,
                        id |-> generate_transaction_id(date.v, memo, amount.v)],
              raised |-> ""]

\* StatementParser.parse of the base class: every record, in order, is parsed
\* and appended to self.statement.lines; the first exception ends it
RECURSIVE ParseLines(_, _, _, _, _, _, _)
ParseLines(w, records, i, sc, map, loc, lines) ==
    IF i > Len(records) THEN [lines |-> lines, raised |-> ""]
    ELSE LET rec == parse_record(w, records[i], sc, map, loc)
         IN  IF rec.raised # "" THEN [lines |-> lines, raised |-> rec.raised]
             ELSE ParseLines(w, records, i + 1, sc, map, loc, Append(lines, rec.line))

\* ------------------------------------------------------------ post-processing
\* lines 192-197: the loop over statement.lines, from line i on
RECURSIVE CurrencyLoop(_, _, _)
CurrencyLoop(lines, i, cur) ==
    IF i > Len(lines) THEN cur
    ELSE IF cur = NoneV \/ cur = lines[i].currency
    THEN CurrencyLoop(lines, i + 1, lines[i].currency)
    ELSE NoneV

RECURSIVE SumAmounts(_, _)
SumAmounts(lines, i) ==
    IF i > Len(lines) THEN 0 ELSE lines[i].amount.n + SumAmounts(lines, i + 1)

Ids(lines) == [i \in 1..Len(lines) |-> lines[i].id]

\* ------------------------------------------------------------ documents
\* A header layout is a sequence of columns, each with the field whose data
\* it holds and the text of its header cell.
Col(loc, f) == [f |-> f, text |-> FIELD_MAPPINGS(loc)[f]]

FullHeader(loc) ==
    << Col(loc, "DATE"), Col(loc, "CONCEPT"), Col(loc, "MOVEMENT"), Col(loc, "AMOUNT"),
       Col(loc, "CURRENCY"), Col(loc, "BALANCE"), Col(loc, "DESCRIPTION") >>

HeaderVariants(loc) ==
    { FullHeader(loc),
      \* value date first, no movement, currency or description column
      << Col(loc, "VALUE_DATE"), Col(loc, "DATE"), Col(loc, "CONCEPT"),
         Col(loc, "AMOUNT"), Col(loc, "BALANCE") >>,
      \* the first header cell in capitals
      << [f |-> "DATE", text |-> IF loc = "es" THEN D_FECHA ELSE D_DATA],
         Col(loc, "CONCEPT"), Col(loc, "AMOUNT"), Col(loc, "BALANCE") >>,
      \* no amount column
      << Col(loc, "DATE"), Col(loc, "CONCEPT"), Col(loc, "MOVEMENT"),
         Col(loc, "BALANCE") >>,
      \* the concept header twice
      << Col(loc, "DATE"), Col(loc, "CONCEPT"), Col(loc, "AMOUNT"),
         Col(loc, "CONCEPT"), Col(loc, "BALANCE") >>,
      \* no header text at all
      << [f |-> "DESCRIPTION", text |-> D_BBVA], [f |-> "CONCEPT", text |-> D_Compra] >> }

Template(date, concept, movement, amount, currency, balance, description) ==
    [VALUE_DATE |-> date, DATE |-> date, CONCEPT |-> concept, MOVEMENT |-> movement,
     AMOUNT |-> amount, CURRENCY |-> currency, BALANCE |-> balance,
     DESCRIPTION |-> description]

BlankTemplate == Template(NoneV, NoneV, NoneV, NoneV, NoneV, NoneV, NoneV)

Templates(loc) ==
    { \* concept in the exact table
      Template(D(1), S(IF loc = "es" THEN T_Pago_con_tarjeta ELSE T_Bonifico_ricevuto),
               NoneV, N(0 - 45), S(D_EUR), N(954), S(D_Supermercado)),
      \* concept starting with table prefixes
      Template(D(2), S(IF loc = "es" THEN D_Abono_Bonificacion_pack ELSE D_Bonifico_estero),
               S(D_Otros), N(5), S(D_EUR), NoneV, NoneV),
      \* movement in the exact table
      Template(D(3), S(D_Compra), S(IF loc = "es" THEN T_Bizum ELSE T_Commissioni),
               N(0 - 20), S(D_USD), N(2), S(D_Supermercado)),
      \* nothing matches, no currency
      Template(D(4), S(D_Spesa), NoneV, N(7), NoneV, N(0), NoneV),
      \* no concept
      Template(D(5), NoneV, NoneV, N(1), S(D_EUR), NoneV, NoneV),
      \* only a zero amount
      Template(NoneV, NoneV, NoneV, N(0), NoneV, NoneV, NoneV),
      BlankTemplate }

RowSeqs(loc) == UNION {[1..n -> Templates(loc)] : n \in 0..MaxDataRows}

\* rows above the header: a title in the first column, or a stray field text
\* in the last one
TopKinds == {"title", "stray"}
TopSeqs == UNION {[1..n -> TopKinds] : n \in 0..MaxTopRows}

Pad(sc) == [c \in 1..sc |-> NoneV]

TopRow(kind, loc, width) ==
    [c \in 1..width |->
        IF kind = "title" /\ c = 1 THEN S(D_BBVA)
        ELSE IF kind = "stray" /\ c = width THEN S(FIELD_MAPPINGS(loc).AMOUNT)
        ELSE NoneV]

Sheet(loc, sc, tops, h, rows) ==
    [i \in 1..Len(tops) |-> TopRow(tops[i], loc, sc + Len(h))]
    \o << Pad(sc) \o [c \in 1..Len(h) |-> S(h[c].text)] >>
    \o [i \in 1..Len(rows) |-> Pad(sc) \o [c \in 1..Len(h) |-> rows[i][h[c].f]]]

\* Statement() of the base class constructor
NewStatement ==
    [lines |-> <<>>, currency |-> NoneV, start_balance |-> NoneV, end_balance |-> NoneV]

\* The documents: every data table under the full header, and every header
\* layout, under every choice of top rows, over a table of at most one row.
ShortRowSeqs(loc) ==
    {<<>>} \cup {<<t>> : t \in Templates(loc) \ {BlankTemplate}}

Documents(loc) ==
    {Sheet(loc, sc, <<>>, FullHeader(loc), rows) :
        sc \in 0..MaxStartCol, rows \in RowSeqs(loc)}
    \cup
    {Sheet(loc, sc, x[1], x[2], x[3]) :
        sc \in 0..MaxStartCol,
        x \in TopSeqs \X HeaderVariants(loc) \X ShortRowSeqs(loc)}

\* ------------------------------------------------------------ the parser
\* BBVAParser.__init__ on a loaded workbook
Init ==
    /\ locale \in Locales
    /\ ws \in Documents(locale)
    /\ pc = "ready"
    /\ err = ""
    /\ calls = 0
    /\ start_row = 0
    /\ start_column = 0
    /\ self_start_row = 0
    /\ self_start_column = 0
    /\ fields_to_row = << >>
    /\ statement = NewStatement
    /\ balance_reads = <<>>
    /\ returned = <<>>

\* parse(), lines 130-148: header location
LocateHeader ==
    /\ pc = "ready"
    /\ calls < MaxCalls
    /\ calls' = calls + 1
    /\ LET hdr == FindHeader(ws, 1, locale)
       IN  IF hdr.row = 0
           THEN /\ pc' = "failed"
                /\ err' = "header"
                /\ UNCHANGED <<start_row, start_column>>
           ELSE /\ pc' = "located"
                /\ err' = ""
                /\ start_row' = hdr.row
                /\ start_column' = hdr.col - 1
    /\ UNCHANGED <<locale, ws, self_start_row, self_start_column, fields_to_row,
                   statement, balance_reads, returned>>

\* parse(), lines 155-171: field mapping and the required fields
MapFields ==
    /\ pc = "located"
    /\ fields_to_row' = MappedFields(ws, start_row, start_column, locale, fields_to_row)
    /\ IF {"DATE", "AMOUNT", "CONCEPT"} \subseteq DOMAIN fields_to_row'
       THEN pc' = "mapped" /\ err' = ""
       ELSE pc' = "failed" /\ err' = "field"
    /\ UNCHANGED <<locale, ws, calls, start_row, start_column, self_start_row,
                   self_start_column, statement, balance_reads, returned>>

\* parse(), lines 173-180: the balance scan
ScanBalance ==
    /\ pc = "mapped"
    /\ self_start_row' = start_row + 1
    /\ self_start_column' = start_column
    /\ LET scan == ScanRows(ws, start_row + 1, start_column, fields_to_row,
                            statement.start_balance, <<>>)
       IN  /\ balance_reads' = scan.reads
           /\ statement' = [statement EXCEPT !.start_balance = scan.bal]
           /\ IF scan.raised
              THEN pc' = "failed" /\ err' = "balance"
              ELSE pc' = "scanned" /\ err' = ""
    /\ UNCHANGED <<locale, ws, calls, start_row, start_column, fields_to_row, returned>>

\* parse(), line 190: super().parse() over split_records and parse_record
SuperParse ==
    /\ pc = "scanned"
    /\ LET records == split_records(ws, self_start_row, self_start_column)
           res == ParseLines(ws, records, 1, self_start_column, fields_to_row, locale,
                             statement.lines)
       IN  /\ ws' = SheetAfterSplit(ws, self_start_row, self_start_column)
           /\ statement' = [statement EXCEPT !.lines = res.lines]
           /\ IF res.raised # ""
              THEN pc' = "failed" /\ err' = res.raised
              ELSE pc' = "parsed" /\ err' = ""
    /\ UNCHANGED <<locale, calls, start_row, start_column, self_start_row,
                   self_start_column, fields_to_row, balance_reads, returned>>

\* parse(), lines 192-197: currency unification
UnifyCurrency ==
    /\ pc = "parsed"
    /\ statement' = [statement EXCEPT
                        !.currency = CurrencyLoop(statement.lines, 1, statement.currency)]
    /\ pc' = "unified"
    /\ UNCHANGED <<locale, ws, err, calls, start_row, start_column, self_start_row,
                   self_start_column, fields_to_row, balance_reads, returned>>

\* parse(), lines 199-207: recalculate_balance and the return
RecalculateBalance ==
    /\ pc = "unified"
    /\ LET start == IF Truthy(statement.start_balance) THEN statement.start_balance
                    ELSE N(0)
       IN  statement' = [statement EXCEPT
                            !.start_balance = start,
                            !.end_balance = N(start.n + SumAmounts(statement.lines, 1))]
    /\ returned' = Append(returned, Ids(statement.lines))
    /\ pc' = "returned"
    /\ UNCHANGED <<locale, ws, err, calls, start_row, start_column, self_start_row,
                   self_start_column, fields_to_row, balance_reads>>

\* the caller holds the parser and may call parse() again
ParseAgain ==
    /\ pc = "returned"
    /\ calls < MaxCalls
    /\ pc' = "ready"
    /\ UNCHANGED <<locale, ws, err, calls, start_row, start_column, self_start_row,
                   self_start_column, fields_to_row, statement, balance_reads, returned>>

Next ==
    \/ LocateHeader
    \/ MapFields
    \/ ScanBalance
    \/ SuperParse
    \/ UnifyCurrency
    \/ RecalculateBalance
    \/ ParseAgain

Spec == Init /\ [][Next]_vars

\* ------------------------------------------------------------ properties
\* The cell of sheet row r under the header cell that field f was mapped to.
FieldCell(r, f) ==
    IF f \in DOMAIN fields_to_row
    THEN ws[r][self_start_column + fields_to_row[f] + 1]
    ELSE NoneV

\* Row r has a cell that is not empty at or right of the start column.
HasNonEmptyCell(r) ==
    \E c \in (start_column + 1)..max_column(ws) : ws[r][c].k # "none"

\* Row r has a cell whose value is true for Python at or right of the start column.
HasTruthyCell(r) ==
    \E c \in (start_column + 1)..max_column(ws) : Truthy(ws[r][c])

\* The length of the longest run of rows right below the header that satisfy P.
RunBelowHeader(P(_)) ==
    CHOOSE n \in 0..Len(ws) :
        /\ \A r \in (start_row + 1)..(start_row + n) : r <= Len(ws) /\ P(r)
        /\ start_row + n + 1 > Len(ws) \/ ~P(start_row + n + 1)

MatchesAnyField(v) ==
    /\ v.k = "str"
    /\ \E f \in Fields : Lower(v.s) = Lower(FIELD_MAPPINGS(locale)[f])

\* C1: the header row and start column are those of the first cell, rows
\* top to bottom and cells left to right, whose lowercased text is the
\* lowercased header text of a field of the locale; when no cell matches,
\* parse fails and returns no Statement.
C1_HeaderLocation ==
    (pc = "located" \/ (pc = "failed" /\ err = "header")) =>
        LET hits == {x \in (1..Len(ws)) \X (1..max_column(ws)) :
                        MatchesAnyField(ws[x[1]][x[2]])}
        IN  IF hits # {}
            THEN /\ pc = "located"
                 /\ <<start_row, start_column + 1>> \in hits
                 /\ \A x \in hits :
                        \/ x[1] > start_row
                        \/ x[1] = start_row /\ x[2] >= start_column + 1
            ELSE pc = "failed" /\ statement.lines = <<>> /\ returned = <<>>

\* The header was found in the second row, right of the first column, by a
\* cell in capitals, after a title cell that is no header.
C1_Witness ==
    /\ pc = "located"
    /\ start_row = 2
    /\ start_column >= 1
    /\ ws[1][1] = S(D_BBVA)
    /\ ~CellIsHeaderExactCase(ws[start_row][start_column + 1], locale)

HeaderHas(f) ==
    \E c \in (start_column + 1)..max_column(ws) :
        ws[start_row][c] = S(FIELD_MAPPINGS(locale)[f])

\* C2: once the header row is located, a field is in the column map iff a
\* cell of the header row at or right of the start column holds exactly its
\* header text, and it maps to the offset of the first such cell from the
\* start column; parse fails, returns nothing and builds no transaction when
\* DATE, AMOUNT or CONCEPT is not in the map.
C2_FieldMapping ==
    (pc \in {"mapped", "scanned", "parsed", "unified", "returned"}
        \/ (pc = "failed" /\ err # "header")) =>
        /\ \A f \in Fields : f \in DOMAIN fields_to_row <=> HeaderHas(f)
        /\ \A f \in DOMAIN fields_to_row :
              /\ fields_to_row[f] >= 0
              /\ start_column + 1 + fields_to_row[f] <= max_column(ws)
              /\ ws[start_row][start_column + 1 + fields_to_row[f]]
                    = S(FIELD_MAPPINGS(locale)[f])
              /\ \A c \in (start_column + 1)..(start_column + fields_to_row[f]) :
                    ws[start_row][c] # S(FIELD_MAPPINGS(locale)[f])
        /\ (\E f \in {"DATE", "AMOUNT", "CONCEPT"} : f \notin DOMAIN fields_to_row) =>
              /\ pc = "failed"
              /\ err = "field"
              /\ statement.lines = <<>>
              /\ returned = <<>>

\* A header right of the first column with a concept column at offset 1 and
\* no amount column: parse failed on the required field.
C2_Witness ==
    /\ pc = "failed"
    /\ err = "field"
    /\ start_column >= 1
    /\ "CONCEPT" \in DOMAIN fields_to_row
    /\ fields_to_row["CONCEPT"] = 1
    /\ "AMOUNT" \notin DOMAIN fields_to_row

\* C3: the transactions are, in row order, the rows of the longest run right
\* below the header in which every row has a non-empty cell at or right of
\* the start column.
C3_RowExtraction ==
    (calls = 1 /\ pc = "returned") =>
        /\ Len(statement.lines) = RunBelowHeader(HasNonEmptyCell)
        /\ \A i \in 1..Len(statement.lines) : statement.lines[i].row = start_row + i

\* What the code does for C3: the run of rows with a cell that is true for
\* Python (neither empty, nor 0, nor "").
RowExtractionByTruth ==
    (calls = 1 /\ pc = "returned") =>
        /\ Len(statement.lines) = RunBelowHeader(HasTruthyCell)
        /\ \A i \in 1..Len(statement.lines) : statement.lines[i].row = start_row + i

\* The rows of the first call's transactions that hold a BALANCE value.
RowsWithBalance ==
    {i \in 1..Len(statement.lines) : FieldCell(statement.lines[i].row, "BALANCE").k # "none"}

\* C4: the starting balance handed to recalculate_balance is the BALANCE value
\* of the first extracted row that holds one; it shows as the starting balance
\* of the returned Statement, which recalculate_balance leaves alone when set
\* and makes 0 when unset.
C4_StartBalance ==
    (calls = 1 /\ pc = "returned") =>
        statement.start_balance =
            IF RowsWithBalance = {} THEN N(0)
            ELSE FieldCell(statement.lines[CHOOSE i \in RowsWithBalance :
                               \A j \in RowsWithBalance : i <= j].row, "BALANCE")

InExactTable(v) ==
    v.k = "str" /\ \E i \in 1..Len(TYPE_MAPPING(locale)) : TYPE_MAPPING(locale)[i][1] = v.s

ExactType(v) ==
    TYPE_MAPPING(locale)[CHOOSE i \in 1..Len(TYPE_MAPPING(locale)) :
                            TYPE_MAPPING(locale)[i][1] = v.s][2]

\* The prefix table as the specification declares it: the first Spanish
\* prefix is 'Abono Bonificacion pack' with its o acute.
DeclaredPrefixes ==
    IF locale = "es"
    THEN [TYPE_MAPPING_PREFIXES("es") EXCEPT ![1] = <<D_Abono_Bonificacion_pack, "FEE">>]
    ELSE TYPE_MAPPING_PREFIXES(locale)

PrefixHits(table, v) ==
    {i \in 1..Len(table) : v.k = "str" /\ StartsWith(v.s, table[i][1])}

FirstPrefixType(table, v) ==
    table[CHOOSE i \in PrefixHits(table, v) : \A j \in PrefixHits(table, v) : i <= j][2]

\* C5: the type is that of the first step that succeeds: the concept in the
\* exact table, the movement in the exact table, the first declared prefix
\* the concept starts with, OTHER; 'Abono Bonificacion pack...' is FEE.
C5_ClassifierOrder ==
    \A i \in 1..Len(statement.lines) :
        LET concept == FieldCell(statement.lines[i].row, "CONCEPT")
            movement == FieldCell(statement.lines[i].row, "MOVEMENT")
        IN  statement.lines[i].trntype =
                IF InExactTable(concept) THEN ExactType(concept)
                ELSE IF InExactTable(movement) THEN ExactType(movement)
                ELSE IF PrefixHits(DeclaredPrefixes, concept) # {}
                THEN FirstPrefixType(DeclaredPrefixes, concept)
                ELSE "OTHER"

\* What the code does for C5: the same order over the table of the source.
ClassifierOrderOfSource ==
    \A i \in 1..Len(statement.lines) :
        LET concept == FieldCell(statement.lines[i].row, "CONCEPT")
            movement == FieldCell(statement.lines[i].row, "MOVEMENT")
        IN  statement.lines[i].trntype =
                IF InExactTable(concept) THEN ExactType(concept)
                ELSE IF InExactTable(movement) THEN ExactType(movement)
                ELSE IF PrefixHits(TYPE_MAPPING_PREFIXES(locale), concept) # {}
                THEN FirstPrefixType(TYPE_MAPPING_PREFIXES(locale), concept)
                ELSE "OTHER"

\* C6: the Statement currency is set to c only if every transaction's
\* currency is c; when two transactions disagree, one with no currency
\* included, it is unset.
C6_CurrencyUnification ==
    (calls = 1 /\ pc \in {"unified", "returned"}) =>
        /\ statement.currency # NoneV =>
              \A i \in 1..Len(statement.lines) :
                  statement.lines[i].currency = statement.currency
        /\ (\E i, j \in 1..Len(statement.lines) :
                statement.lines[i].currency # statement.lines[j].currency) =>
              statement.currency = NoneV

\* C7: two parse calls on one parser return Statements with the same number
\* of transactions, the same identifiers and the same order.
C7_Idempotence ==
    \A i, j \in 1..Len(returned) : returned[i] = returned[j]

\* C8: classification never makes parse fail, whatever the CONCEPT and
\* MOVEMENT cells of a row hold.
C8_ClassificationNeverFails ==
    ~(pc = "failed" /\ err = "classify")

\* C9: the memo is '[(<type-source>)-(<movement>)] <description>', the type
\* source being the concept on an exact concept match, the movement on an
\* exact movement match, and the concept on a prefix match or the default.
C9_MemoAsClaimed ==
    \A i \in 1..Len(statement.lines) :
        LET concept == FieldCell(statement.lines[i].row, "CONCEPT")
            movement == FieldCell(statement.lines[i].row, "MOVEMENT")
            description == FieldCell(statement.lines[i].row, "DESCRIPTION")
            source == IF InExactTable(concept) THEN concept
                      ELSE IF InExactTable(movement) THEN movement
                      ELSE concept
        IN  statement.lines[i].memo =
                <<"[", "(">> \o PyStr(source) \o <<")", "-", "(">> \o PyStr(movement)
                \o <<")", "]", " ">> \o PyStr(description)

\* C9 as amended: the type source is the concept on an exact concept match,
\* the movement on an exact movement match, the concept on a prefix match,
\* and absent (rendered 'None', as an empty movement or description cell is)
\* when classification fell through to the default OTHER.
C9_MemoComposition ==
    \A i \in 1..Len(statement.lines) :
        LET concept == FieldCell(statement.lines[i].row, "CONCEPT")
            movement == FieldCell(statement.lines[i].row, "MOVEMENT")
            description == FieldCell(statement.lines[i].row, "DESCRIPTION")
            source == IF InExactTable(concept) THEN concept
                      ELSE IF InExactTable(movement) THEN movement
                      ELSE IF PrefixHits(TYPE_MAPPING_PREFIXES(locale), concept) # {}
                      THEN concept
                      ELSE NoneV
        IN  statement.lines[i].memo =
                <<"[", "(">> \o PyStr(source) \o <<")", "-", "(">> \o PyStr(movement)
                \o <<")", "]", " ">> \o PyStr(description)

\* A returned Statement with a transaction typed by its movement, one typed
\* by a prefix and one that fell to OTHER with the memo '[(None)-(None)] None'.
C9_Witness ==
    /\ pc = "returned"
    /\ \E i, j, k \in 1..Len(statement.lines) :
          /\ InExactTable(FieldCell(statement.lines[i].row, "MOVEMENT"))
          /\ ~InExactTable(FieldCell(statement.lines[i].row, "CONCEPT"))
          /\ StartsWith(statement.lines[i].memo,
                        <<"[", "(">> \o FieldCell(statement.lines[i].row, "MOVEMENT").s)
          /\ PrefixHits(TYPE_MAPPING_PREFIXES(locale),
                        FieldCell(statement.lines[j].row, "CONCEPT")) # {}
          /\ ~InExactTable(FieldCell(statement.lines[j].row, "CONCEPT"))
          /\ statement.lines[k].trntype = "OTHER"
          /\ statement.lines[k].memo =
                <<"[", "(", "N", "o", "n", "e", ")", "-", "(", "N", "o", "n", "e", ")", "]",
                  " ", "N", "o", "n", "e">>

\* C10: in every row the balance scan visits, the cell it reads as BALANCE is
\* the one at sheet column start column + ColumnMap[BALANCE], and it is
\* inside the row.
C10_BalanceScanAlignment ==
    \A i \in 1..Len(balance_reads) :
        balance_reads[i].col = self_start_column + fields_to_row["BALANCE"] + 1

=============================================================================
